---- MODULE Spec2Model ----
(***************************************************************************)
(* The kqueue backend of mio (src/sys/unix/kqueue.rs): the Selector, which *)
(* turns register / reregister / deregister / select into kevent(2) calls, *)
(* and the Events buffer, which coalesces the raw kernel events of one     *)
(* wait into one Event per token.                                          *)
(*                                                                         *)
(* The kernel queue is the environment of the code.  It is modelled by the *)
(* knotes the queue holds (one per descriptor and filter) and by what      *)
(* kevent(2) answers to the calls the code makes.                          *)
(***************************************************************************)
EXTENDS Integers, Sequences, FiniteSets, TLC

VARIABLES
    knote,       \* kernel: the filter registered for <<fd, filter>>, or NoKnote
    cond,        \* kernel: whether fd has unread data
    cap,         \* Events: capacity of sys_events (with_capacity)
    sys_events,  \* Events.sys_events: the raw kevents of the last wait
    events,      \* Events.events: the output sequence
    event_map,   \* Events.event_map: token -> index in events
    last,        \* the last call made on the Selector and what it returned
    scn,         \* the calls the program under examination makes (fixed at Init)
    input,       \* arguments of the call under examination (pure-function runs)
    pc,          \* "run": a live selector; "call"/"done": a pure-function run
    NEXT_ID,     \* the static counter the selector ids are drawn from
    selectors,   \* the calls of Selector::new that returned, in order
    thread       \* where each thread stands in Selector::new

vars == <<knote, cond, cap, sys_events, events, event_map, last, scn, input, pc,
          NEXT_ID, selectors, thread>>

\* the state of Selector::new
ids == <<NEXT_ID, selectors, thread>>

----------------------------------------------------------------------------
(* Bounds of the model *)

\* tokens are 0..MaxToken
MaxToken == 2
\* buffer capacities are 0, 1 and MaxCap
MaxCap == 2
\* push_event is explored while the output sequence is shorter than this
MaxLen == 1
\* longest raw event sequence handed to coalesce in the pure-function runs
MaxRaw == 2
\* longest raw event sequence handed to coalesce in the runs on the order
MaxOrderRaw == 4
\* push_event calls made on a fresh buffer
MaxPush == 3
\* usize is IdBits wide
IdBits == 2
\* calls of Selector::new explored
MaxNew == 5

----------------------------------------------------------------------------
(* libc constants *)

ENOENT == 2
EINTR == 4
EBADF == 9
EINVAL == 22
EPIPE == 32

EV_CLEAR == "EV_CLEAR"
EV_ONESHOT == "EV_ONESHOT"
EV_RECEIPT == "EV_RECEIPT"
EV_ADD == "EV_ADD"
EV_DELETE == "EV_DELETE"
EV_ERROR == "EV_ERROR"
EV_EOF == "EV_EOF"
EVFILT_READ == "EVFILT_READ"
EVFILT_WRITE == "EVFILT_WRITE"
EVFILT_OTHER == "EVFILT_OTHER"

\* the order of the changes array: read first, write second
Filters == {EVFILT_READ, EVFILT_WRITE}

----------------------------------------------------------------------------
(* Portable value types: Token, Ready, PollOpt, Event, io::Result *)

Tokens == 0..MaxToken

readable == "readable"
writable == "writable"
hup == "hup"
error == "error"

\* Ready is a bit set; insert is set union
Ready == SUBSET {readable, writable, hup, error}
Interests == SUBSET {readable, writable}

edge == "edge"
oneshot == "oneshot"
\* level-triggered is the absence of edge
PollOpts == SUBSET {edge, oneshot}

Event(kind, token) == [token |-> token, kind |-> kind]

Ok == [ok |-> TRUE, code |-> 0]
Err(code) == [ok |-> FALSE, code |-> code]

\* cvt that takes a count of zero for a failure as well
cvtZeroFails(rc, errno) == IF rc <= 0 THEN Err(errno) ELSE Ok

\* cvt: -1 from a syscall becomes the last OS error, anything else is Ok
cvt(rc, errno) == IF rc = -1 THEN Err(errno) ELSE Ok

----------------------------------------------------------------------------
(* The descriptors of the scenario.  "sock" accepts both filters; "kq" is   *)
(* a kqueue descriptor, which accepts the read filter only.                *)

Fds == {"sock", "kq"}

NoKnote == [present |-> FALSE]
Knote(udata, flags, active) ==
    [present |-> TRUE, udata |-> udata, clear |-> EV_CLEAR \in flags,
     oneshot |-> EV_ONESHOT \in flags, active |-> active]

\* a raw kevent as the wait call returns it
KEvent(filter, flags, fflags, udata) ==
    [filter |-> filter, flags |-> flags, fflags |-> fflags, udata |-> udata]

----------------------------------------------------------------------------
(* Events::coalesce *)

\* Ready::insert: OR the bits into the event's kind
insert(kind, bits) == kind \cup bits

\* event_map.entry(token).or_insert(len): the map after the lookup
or_insert(map, token, len) ==
    IF \E p \in map : p[1] = token THEN map ELSE map \cup {<<token, len>>}

\* the index the map holds for a token it contains
MapIdx(map, token) == (CHOOSE p \in map : p[1] = token)[2]

\* RawKind that takes a nonzero fflags for an error without looking at EV_EOF
RawKindFflagsAlone(e) ==
    LET k1 == IF EV_ERROR \in e.flags THEN insert({}, {error}) ELSE {}
        k2 == IF e.filter = EVFILT_READ THEN insert(k1, {readable})
              ELSE IF e.filter = EVFILT_WRITE THEN insert(k1, {writable})
              ELSE k1
        k3 == IF EV_EOF \in e.flags THEN insert(k2, {hup}) ELSE k2
        k4 == IF e.fflags # 0 THEN insert(k3, {error}) ELSE k3
    IN k4

\* the readiness bits one raw kevent contributes
RawKind(e) ==
    LET k1 == IF EV_ERROR \in e.flags THEN insert({}, {error}) ELSE {}
        k2 == IF e.filter = EVFILT_READ THEN insert(k1, {readable})
              ELSE IF e.filter = EVFILT_WRITE THEN insert(k1, {writable})
              ELSE k1
        k3 == IF EV_EOF \in e.flags
              THEN IF e.fflags # 0 THEN insert(insert(k2, {hup}), {error})
                   ELSE insert(k2, {hup})
              ELSE k2
    IN k3

\* CoalesceStep without the map lookup: every raw event gets an Event of its own
CoalesceStepNoMerge(st, e, awakener) ==
    IF e.udata = awakener
    THEN [st EXCEPT !.ret = TRUE]
    ELSE [events |-> Append(st.events, Event(insert({}, RawKind(e)), e.udata)),
          event_map |-> or_insert(st.event_map, e.udata, Len(st.events)),
          ret |-> st.ret]

\* CoalesceStep that takes a raw event of the awakener for a wake only when
\* it carries no error
CoalesceStepCleanWake(st, e, awakener) ==
    IF e.udata = awakener /\ EV_ERROR \notin e.flags
    THEN [st EXCEPT !.ret = TRUE]
    ELSE LET map == or_insert(st.event_map, e.udata, Len(st.events))
             idx == MapIdx(map, e.udata)
             evs == IF idx = Len(st.events)
                    THEN Append(st.events, Event({}, e.udata))
                    ELSE st.events
         IN [events |-> [evs EXCEPT ![idx + 1].kind = insert(@, RawKind(e))],
             event_map |-> map,
             ret |-> st.ret]

\* CoalesceStep in which a raw event of the awakener takes a slot of the
\* output sequence
CoalesceStepWakeSlot(st, e, awakener) ==
    IF e.udata = awakener
    THEN [events |-> Append(st.events, Event({}, e.udata)),
          event_map |-> st.event_map,
          ret |-> TRUE]
    ELSE LET map == or_insert(st.event_map, e.udata, Len(st.events))
             idx == MapIdx(map, e.udata)
             evs == IF idx = Len(st.events)
                    THEN Append(st.events, Event({}, e.udata))
                    ELSE st.events
         IN [events |-> [evs EXCEPT ![idx + 1].kind = insert(@, RawKind(e))],
             event_map |-> map,
             ret |-> st.ret]

\* one iteration of the loop over sys_events; st = [events, event_map, ret]
CoalesceStep(st, e, awakener) ==
    LET token == e.udata
        len == Len(st.events)
    IN IF token = awakener
       THEN [st EXCEPT !.ret = TRUE]
       ELSE LET map == or_insert(st.event_map, token, len)
                idx == MapIdx(map, token)
                evs == IF idx = len
                       THEN Append(st.events, Event({}, token))
                       ELSE st.events
            IN [events |-> [evs EXCEPT ![idx + 1].kind = insert(@, RawKind(e))],
                event_map |-> map,
                ret |-> st.ret]

RECURSIVE CoalesceLoop(_, _, _)
CoalesceLoop(st, raw, awakener) ==
    IF raw = <<>> THEN st
    ELSE CoalesceLoop(CoalesceStep(st, Head(raw), awakener), Tail(raw), awakener)

\* coalesce without the two clear() calls
coalesceNoClear(evs, map, raw, awakener) ==
    CoalesceLoop([events |-> evs, event_map |-> map, ret |-> FALSE], raw, awakener)

\* self.events.clear(); self.event_map.clear(); then the loop.  evs and map
\* are what the buffer held before the call.
coalesce(evs, map, raw, awakener) ==
    CoalesceLoop([events |-> <<>>, event_map |-> {}, ret |-> FALSE], raw, awakener)

----------------------------------------------------------------------------
(* Selector::register and Selector::deregister: what the call returns for  *)
(* the per-change results the kernel wrote back (EV_RECEIPT)               *)

\* PollFlags that sets EV_CLEAR whatever the options
PollFlagsAlwaysClear(opts) ==
    {EV_CLEAR} \cup (IF oneshot \in opts THEN {EV_ONESHOT} ELSE {}) \cup {EV_RECEIPT}

\* PollFlags that never sets EV_CLEAR
PollFlagsNeverClear(opts) ==
    (IF oneshot \in opts THEN {EV_ONESHOT} ELSE {}) \cup {EV_RECEIPT}

\* the flags shared by both changes of register
PollFlags(opts) ==
    (IF edge \in opts THEN {EV_CLEAR} ELSE {})
    \cup (IF oneshot \in opts THEN {EV_ONESHOT} ELSE {})
    \cup {EV_RECEIPT}

\* ChangeFlag that adds both filters whatever the interest
ChangeFlagAlwaysAdd(interests, bit) == EV_ADD

\* EV_ADD for a direction of the interest, EV_DELETE for the others
ChangeFlag(interests, bit) == IF bit \in interests THEN EV_ADD ELSE EV_DELETE

\* ChangeError that passes over EPIPE on either change
ChangeErrorAnyPipe(filter, data, orig_flags) ==
    IF data = 0 THEN 0
    ELSE IF data = EPIPE THEN 0
    ELSE IF data = ENOENT /\ orig_flags = EV_DELETE THEN 0
    ELSE data

\* a change of the loop of register: 0 when it is passed over, else its code
ChangeError(filter, data, orig_flags) ==
    IF data = 0 THEN 0
    ELSE IF data = EPIPE /\ filter = EVFILT_WRITE THEN 0
    ELSE IF data = ENOENT /\ orig_flags = EV_DELETE THEN 0
    ELSE data

\* registerResult that examines the write change before the read change
registerResultWriteFirst(interests, rdata, wdata) ==
    LET r == ChangeFlag(interests, readable)
        w == ChangeFlag(interests, writable)
    IN IF ChangeError(EVFILT_WRITE, wdata, w) # 0 THEN Err(wdata)
       ELSE IF ChangeError(EVFILT_READ, rdata, r) # 0 THEN Err(rdata)
       ELSE Ok

registerResult(interests, rdata, wdata) ==
    LET r == ChangeFlag(interests, readable)
        w == ChangeFlag(interests, writable)
    IN IF ChangeError(EVFILT_READ, rdata, r) # 0 THEN Err(rdata)
       ELSE IF ChangeError(EVFILT_WRITE, wdata, w) # 0 THEN Err(wdata)
       ELSE Ok

\* the error deregister builds when a change fails: changes[0].data
DeregisterErrorCode(rdata, wdata) == rdata

\* deregisterResult that takes every nonzero result for an error
deregisterResultStrict(rdata, wdata) ==
    IF rdata # 0 THEN Err(rdata)
    ELSE IF wdata # 0 THEN Err(wdata)
    ELSE Ok

\* deregisterResult without the test of lines 152-154
deregisterResultNoNotFound(rdata, wdata) ==
    IF rdata # 0 /\ rdata # ENOENT THEN Err(DeregisterErrorCode(rdata, wdata))
    ELSE IF wdata # 0 /\ wdata # ENOENT THEN Err(DeregisterErrorCode(rdata, wdata))
    ELSE Ok

deregisterResult(rdata, wdata) ==
    IF rdata = ENOENT /\ wdata = ENOENT THEN Err(rdata)
    ELSE IF rdata # 0 /\ rdata # ENOENT THEN Err(DeregisterErrorCode(rdata, wdata))
    ELSE IF wdata # 0 /\ wdata # ENOENT THEN Err(DeregisterErrorCode(rdata, wdata))
    ELSE Ok

----------------------------------------------------------------------------
(* kevent(2), as the calls of the Selector see it *)

\* whether the filter's condition holds now: unread data for the read
\* filter; the descriptors of the scenario are always writable
Triggered(cnd, fd, filter) == IF filter = EVFILT_READ THEN cnd[fd] ELSE TRUE

\* the errno of attaching a filter: a kqueue descriptor has no write filter
AttachError(fd, filter) ==
    IF fd = "kq" /\ filter = EVFILT_WRITE THEN EINVAL ELSE 0

\* one change of a changelist applied with EV_RECEIPT: the data written back
\* and the knotes afterwards.  EV_ADD creates or updates the knote and
\* evaluates its filter; EV_DELETE of a knote that is absent is ENOENT.
KernelChange(kn, cnd, fd, filter, flag, flags, udata) ==
    IF flag = EV_ADD
    THEN IF AttachError(fd, filter) # 0
         THEN [data |-> AttachError(fd, filter), flags |-> {EV_ERROR}, knote |-> kn]
         ELSE [data |-> 0, flags |-> {EV_ERROR},
               knote |-> [kn EXCEPT ![fd][filter] =
                             Knote(udata, flags, Triggered(cnd, fd, filter))]]
    ELSE IF kn[fd][filter].present
         THEN [data |-> 0, flags |-> {EV_ERROR},
               knote |-> [kn EXCEPT ![fd][filter] = NoKnote]]
         ELSE [data |-> ENOENT, flags |-> {EV_ERROR}, knote |-> kn]

\* what the kevent call of register and deregister returns, and whether the
\* changes were applied.  Every change carries EV_RECEIPT and the eventlist
\* has room for the nchanges receipts, so the call does not wait: it
\* applies the changes, writes a receipt for each, the errors of the
\* changes included, and returns their number.
KernelApply(nchanges) == [rc |-> nchanges, errno |-> 0, applied |-> TRUE]

\* the debug_assert of the result loops: every receipt carries EV_ERROR
ReceiptFlagged(flags) == flags \cap {EV_ERROR} = {EV_ERROR}

\* the knotes a wait can report
ActiveKnotes(kn) ==
    {p \in Fds \X Filters : kn[p[1]][p[2]].present /\ kn[p[1]][p[2]].active}

Min(a, b) == IF a < b THEN a ELSE b

\* the sequences of n distinct elements of S
Arrangements(S, n) ==
    {q \in [1..n -> S] : \A i, j \in 1..n : i # j => q[i] # q[j]}

\* a knote after the wait reported it: EV_ONESHOT removes it, EV_CLEAR
\* resets it, a level-triggered knote stays active
Delivered(k) ==
    IF k.oneshot THEN NoKnote
    ELSE IF k.clear THEN [k EXCEPT !.active = FALSE]
    ELSE k

Timeouts == {"None", "Some"}

\* what a wait with room for nevents can return: rc = -1 with errno, or rc
\* events, any of the active knotes in any order.  Without a timeout the
\* call sleeps until a knote is active, and a signal interrupts the sleep;
\* with nevents = 0 it returns at once.
KernelWait(kn, nevents, timeout) ==
    LET n == Min(nevents, Cardinality(ActiveKnotes(kn)))
        sleeps == timeout = "None" /\ nevents > 0 /\ n = 0
    IN (IF sleeps THEN {}
        ELSE {[rc |-> n, errno |-> 0, which |-> q] :
                  q \in Arrangements(ActiveKnotes(kn), n)})
       \cup (IF sleeps
             THEN {[rc |-> -1, errno |-> EINTR, which |-> <<>>]}
             ELSE {})

\* the raw kevents written to the event list
RawEvents(kn, which) ==
    [i \in 1..Len(which) |->
        KEvent(which[i][2], {}, 0, kn[which[i][1]][which[i][2]].udata)]

KnotesAfterWait(kn, which) ==
    [fd \in Fds |-> [f \in Filters |->
        IF \E i \in 1..Len(which) : which[i] = <<fd, f>>
        THEN Delivered(kn[fd][f]) ELSE kn[fd][f]]]

----------------------------------------------------------------------------
(* The calls *)

NoInput == [op |-> "none"]

Again(op, fd) == last.op = op /\ last.fd = fd /\ last.res.ok

\* the record of a call: what was called and what it returned, with
\*   again:  the call before it was the same operation on the same
\*           descriptor, and succeeded
\*   before: len() of the buffer when a select was called
\*   kevent: what cvt made of the return value of the kevent call
\*   from:   the descriptors whose knotes the wait of a select reported
Call(op, fd, res) ==
    [op |-> op, fd |-> fd, interests |-> {}, res |-> res, wake |-> FALSE,
     awakener |-> 0, again |-> Again(op, fd), before |-> 0, kevent |-> Ok,
     from |-> {}]

Registered(op, fd, interests, res) ==
    [Call(op, fd, res) EXCEPT !.interests = interests]

SelectReturned(res, wake, awakener, from) ==
    [op |-> "select", fd |-> "none", interests |-> {}, res |-> res, wake |-> wake,
     awakener |-> awakener, again |-> Again("select", "none"),
     before |-> Len(events), kevent |-> IF res.ok THEN Ok ELSE res,
     from |-> from]

\* the descriptors whose knotes a wait reported
Origins(which) == {which[i][1] : i \in 1..Len(which)}

\* the program under examination: the descriptors it owns, the
\* registrations it makes for them and the token it reserves for wake-ups
Scenario(fds, interests, opts, awakener) ==
    [fds |-> fds, interests |-> interests, opts |-> opts, awakener |-> awakener]

NoScenario == Scenario({}, {}, {}, 0)

Threads == {"t1", "t2"}

Idle == [at |-> "idle"]

\* the outcome of one Selector::new: the id it drew, and whether it
\* returned a Selector
Created(id, ok) == [id |-> id, ok |-> ok]

\* an empty kernel queue
InitQueue ==
    /\ knote = [fd \in Fds |-> [f \in Filters |-> NoKnote]]
    /\ cond = [fd \in Fds |-> FALSE]
    /\ last = [op |-> "new", fd |-> "none", interests |-> {}, res |-> Ok, wake |-> FALSE,
               awakener |-> 0, again |-> FALSE, before |-> 0, kevent |-> Ok,
               from |-> {}]

\* the first Selector of the process has been created
InitSelector ==
    /\ InitQueue
    /\ NEXT_ID = 1
    /\ selectors = <<Created(1, TRUE)>>
    /\ thread = [t \in Threads |-> Idle]

InitEvents ==
    /\ cap \in {0, 1, MaxCap}
    /\ sys_events = <<>>
    /\ events = <<>>
    /\ event_map = {}

\* a program with one descriptor, of either kind, registered in any way
Init ==
    /\ InitSelector
    /\ InitEvents
    /\ scn \in {Scenario({fd}, Interests, PollOpts, MaxToken) : fd \in Fds}
    /\ input = NoInput
    /\ pc = "run"

\* register that leaves the udata of its changes null, as deregister does
RegisterChangesNullToken(kn, cnd, fd, token, interests, opts) ==
    LET c1 == KernelChange(kn, cnd, fd, EVFILT_READ,
                           ChangeFlag(interests, readable), PollFlags(opts), 0)
        c2 == KernelChange(c1.knote, cnd, fd, EVFILT_WRITE,
                           ChangeFlag(interests, writable), PollFlags(opts), 0)
    IN [rdata |-> c1.data, wdata |-> c2.data, rflags |-> c1.flags,
        wflags |-> c2.flags, knote |-> c2.knote]

\* the two changes of register handed to kevent: the data written back to
\* each and the knotes afterwards
RegisterChanges(kn, cnd, fd, token, interests, opts) ==
    LET c1 == KernelChange(kn, cnd, fd, EVFILT_READ,
                           ChangeFlag(interests, readable), PollFlags(opts), token)
        c2 == KernelChange(c1.knote, cnd, fd, EVFILT_WRITE,
                           ChangeFlag(interests, writable), PollFlags(opts), token)
    IN [rdata |-> c1.data, wdata |-> c2.data, rflags |-> c1.flags,
        wflags |-> c2.flags, knote |-> c2.knote]

\* Selector::register, and reregister, which calls it, when the kevent call
\* returns out: a call that returns -1 makes register return the errno
\* without a look at the receipts
RegisterStep(op, fd, token, interests, opts, out) ==
    LET ch == RegisterChanges(knote, cond, fd, token, interests, opts)
        sys == cvt(out.rc, out.errno)
        res == IF sys.ok
               THEN registerResult(interests, ch.rdata, ch.wdata)
               ELSE sys
    IN /\ pc = "run"
       /\ sys.ok => ReceiptFlagged(ch.rflags) /\ ReceiptFlagged(ch.wflags)
       /\ knote' = IF out.applied THEN ch.knote ELSE knote
       /\ last' = [Registered(op, fd, interests, res) EXCEPT !.kevent = sys]
       /\ UNCHANGED <<cond, cap, sys_events, events, event_map, scn, ids, pc>>

RegisterCall(op, fd, token, interests, opts, out) ==
    RegisterStep(op, fd, token, interests, opts, out) /\ UNCHANGED input

Register ==
    \E fd \in scn.fds, token \in Tokens, interests \in scn.interests, opts \in scn.opts :
        RegisterCall("register", fd, token, interests, opts, KernelApply(2))

Reregister ==
    \E fd \in scn.fds, token \in Tokens, interests \in scn.interests, opts \in scn.opts :
        RegisterCall("reregister", fd, token, interests, opts, KernelApply(2))

\* Selector::deregister, when the kevent call returns out
DeregisterCall(fd, out) ==
    LET c1 == KernelChange(knote, cond, fd, EVFILT_READ, EV_DELETE, {EV_RECEIPT}, 0)
        c2 == KernelChange(c1.knote, cond, fd, EVFILT_WRITE, EV_DELETE, {EV_RECEIPT}, 0)
        sys == cvt(out.rc, out.errno)
        res == IF sys.ok THEN deregisterResult(c1.data, c2.data) ELSE sys
    IN /\ pc = "run"
       /\ sys.ok => ReceiptFlagged(c1.flags) /\ ReceiptFlagged(c2.flags)
       /\ knote' = IF out.applied THEN c2.knote ELSE knote
       /\ last' = [Call("deregister", fd, res) EXCEPT !.kevent = sys]
       /\ UNCHANGED <<cond, cap, sys_events, events, event_map, scn, ids, input, pc>>

Deregister == \E fd \in scn.fds : DeregisterCall(fd, KernelApply(2))

\* select that clears the output sequence and the map before it looks at
\* the result of the wait
SelectStepClearsFirst(awakener, timeout) ==
    \E out \in KernelWait(knote, cap, timeout) :
        LET res == cvt(out.rc, out.errno)
            raw == RawEvents(knote, out.which)
            co == coalesce(events, event_map, raw, awakener)
        IN /\ pc = "run"
           /\ IF res.ok
              THEN /\ sys_events' = raw
                   /\ events' = co.events
                   /\ event_map' = co.event_map
                   /\ knote' = KnotesAfterWait(knote, out.which)
              ELSE /\ events' = <<>>
                   /\ event_map' = {}
                   /\ UNCHANGED <<sys_events, knote>>
           /\ last' = SelectReturned(res, res.ok /\ co.ret, awakener, Origins(out.which))
           /\ UNCHANGED <<cond, cap, scn, ids, pc>>

\* Selector::select: the wait, set_len, coalesce
SelectStep(awakener, timeout) ==
    \E out \in KernelWait(knote, cap, timeout) :
        LET res == cvt(out.rc, out.errno)
            raw == RawEvents(knote, out.which)
            co == coalesce(events, event_map, raw, awakener)
        IN /\ pc = "run"
           /\ IF res.ok
              THEN /\ sys_events' = raw
                   /\ events' = co.events
                   /\ event_map' = co.event_map
                   /\ knote' = KnotesAfterWait(knote, out.which)
              ELSE UNCHANGED <<sys_events, events, event_map, knote>>
           /\ last' = SelectReturned(res, res.ok /\ co.ret, awakener, Origins(out.which))
           /\ UNCHANGED <<cond, cap, scn, ids, pc>>

SelectCall(awakener, timeout) == SelectStep(awakener, timeout) /\ UNCHANGED input

Select == \E timeout \in Timeouts : SelectCall(scn.awakener, timeout)

\* Events::len, is_empty and get on the output sequence
len(evs) == Len(evs)
is_empty(evs) == Len(evs) = 0
None == [some |-> FALSE]
Some(e) == [some |-> TRUE, value |-> e]
get(evs, idx) == IF idx < Len(evs) THEN Some(evs[idx + 1]) ELSE None

\* push_event that drops the event once the capacity is used up
PushEventStepNoGrowth(event) ==
    /\ pc = "run"
    /\ events' = IF Len(events) < cap THEN Append(events, event) ELSE events
    /\ last' = Call("push_event", "none", Ok)
    /\ UNCHANGED <<knote, cond, cap, sys_events, event_map, scn, ids, pc>>

\* Events::push_event
PushEventStep(event) ==
    /\ pc = "run"
    /\ events' = Append(events, event)
    /\ last' = Call("push_event", "none", Ok)
    /\ UNCHANGED <<knote, cond, cap, sys_events, event_map, scn, ids, pc>>

PushEventCall(event) ==
    /\ Len(events) < MaxLen
    /\ PushEventStep(event)
    /\ UNCHANGED input

PushEvent == \E t \in Tokens : PushEventCall(Event({readable, hup}, t))

\* data arrives on fd: the read filter triggers
Arrive(fd) ==
    /\ pc = "run"
    /\ cond' = [cond EXCEPT ![fd] = TRUE]
    /\ knote' = [knote EXCEPT ![fd][EVFILT_READ] =
                    IF @.present THEN [@ EXCEPT !.active = TRUE] ELSE @]
    /\ UNCHANGED <<cap, sys_events, events, event_map, last, scn, ids, input, pc>>

\* the data of fd is read to the end: the read filter no longer holds
Drain(fd) ==
    /\ pc = "run"
    /\ cond[fd]
    /\ cond' = [cond EXCEPT ![fd] = FALSE]
    /\ knote' = [knote EXCEPT ![fd][EVFILT_READ] =
                    IF @.present THEN [@ EXCEPT !.active = FALSE] ELSE @]
    /\ UNCHANGED <<cap, sys_events, events, event_map, last, scn, ids, input, pc>>

DataArrives == \E fd \in scn.fds : Arrive(fd)
DataDrained == \E fd \in scn.fds : Drain(fd)

Next ==
    \/ Register
    \/ Reregister
    \/ Deregister
    \/ Select
    \/ DataArrives
    \/ DataDrained

Spec == Init /\ [][Next]_vars

\* a program with both descriptors that registers read interest,
\* level-triggered
InitLevel ==
    /\ InitSelector
    /\ InitEvents
    /\ scn = Scenario(Fds, {{readable}}, {{}}, MaxToken)
    /\ input = NoInput
    /\ pc = "run"

NextLevel ==
    \/ Register
    \/ Reregister
    \/ Deregister
    \/ Select
    \/ PushEvent
    \/ DataArrives
    \/ DataDrained

SpecLevel == InitLevel /\ [][NextLevel]_vars

----------------------------------------------------------------------------
(* A program with one descriptor that it registers for any interest,       *)
(* level-triggered or edge-triggered and one-shot, again and again, and    *)
(* waits with a buffer of MaxCap.  input.recent is the token of the latest *)
(* register or reregister call, input.clean the token of the latest one    *)
(* that returned Ok with both receipts zero; NoToken before the first.     *)

NoToken == -1

InitToken ==
    /\ InitSelector
    /\ cap = MaxCap
    /\ sys_events = <<>>
    /\ events = <<>>
    /\ event_map = {}
    /\ scn \in {Scenario({fd}, Interests, {{}, {edge, oneshot}}, MaxToken) : fd \in Fds}
    /\ input = [op |-> "token", recent |-> NoToken, clean |-> NoToken]
    /\ pc = "run"

RegisterNoted(op) ==
    \E fd \in scn.fds, token \in Tokens, interests \in scn.interests, opts \in scn.opts :
        LET ch == RegisterChanges(knote, cond, fd, token, interests, opts)
        IN /\ RegisterStep(op, fd, token, interests, opts, KernelApply(2))
           /\ input' = [input EXCEPT
                           !.recent = token,
                           !.clean = IF last'.res.ok /\ ch.rdata = 0 /\ ch.wdata = 0
                                     THEN token ELSE @]

RegisterTold == RegisterNoted("register")
ReregisterTold == RegisterNoted("reregister")

NextToken ==
    \/ RegisterTold
    \/ ReregisterTold
    \/ Deregister
    \/ Select
    \/ DataArrives
    \/ DataDrained

SpecToken == InitToken /\ [][NextToken]_vars

----------------------------------------------------------------------------
(* A program with both descriptors that registers them level-triggered,    *)
(* for reading or for both directions, and waits with a buffer of one.     *)

InitBoth ==
    /\ InitSelector
    /\ cap = 1
    /\ sys_events = <<>>
    /\ events = <<>>
    /\ event_map = {}
    /\ scn = Scenario(Fds, {{readable}, {readable, writable}}, {{}}, MaxToken)
    /\ input = NoInput
    /\ pc = "run"

SpecBoth == InitBoth /\ [][Next]_vars

----------------------------------------------------------------------------
(* A program that registers one descriptor once, for reading and           *)
(* edge-triggered, on which data arrives once.  input.count is the number  *)
(* of waits so far that yielded a readable Event, counted up to MaxCount.  *)

MaxCount == 2

InitEdge ==
    /\ InitSelector
    /\ InitEvents
    /\ scn \in {Scenario({fd}, {{readable}}, {{edge}}, MaxToken) : fd \in Fds}
    /\ input = [op |-> "edge", count |-> 0]
    /\ pc = "run"

RegisterOnce == last.op = "new" /\ Register

FirstArrival == \E fd \in scn.fds : ~cond[fd] /\ Arrive(fd)

\* the select of this step returned Ok with a readable Event
YieldsAnyReadable ==
    last'.res.ok /\ \E i \in 1..Len(events') : readable \in events'[i].kind

SelectCounted ==
    \E timeout \in Timeouts :
        /\ SelectStep(scn.awakener, timeout)
        /\ input' = [input EXCEPT !.count =
                        Min(MaxCount, @ + (IF YieldsAnyReadable THEN 1 ELSE 0))]

NextEdge ==
    \/ RegisterOnce
    \/ FirstArrival
    \/ SelectCounted

SpecEdge == InitEdge /\ [][NextEdge]_vars

----------------------------------------------------------------------------
(* A program that registers a socket once with the one-shot option, for    *)
(* any interest, level- or edge-triggered.  input.count is the number of   *)
(* waits so far that yielded an Event, counted up to MaxCount.             *)

InitOneshot ==
    /\ InitSelector
    /\ InitEvents
    /\ scn = Scenario({"sock"}, Interests \ {{}}, {{oneshot}, {edge, oneshot}}, MaxToken)
    /\ input = [op |-> "oneshot", count |-> 0]
    /\ pc = "run"

\* the select of this step returned Ok with an Event
YieldsAny == last'.res.ok /\ events' # <<>>

SelectTallied ==
    \E timeout \in Timeouts :
        /\ SelectStep(scn.awakener, timeout)
        /\ input' = [input EXCEPT !.count =
                        Min(MaxCount, @ + (IF YieldsAny THEN 1 ELSE 0))]

NextOneshot ==
    \/ RegisterOnce
    \/ DataArrives
    \/ DataDrained
    \/ SelectTallied

SpecOneshot == InitOneshot /\ [][NextOneshot]_vars

----------------------------------------------------------------------------
(* Selector::new called from several threads.  NEXT_ID is a usize: the     *)
(* fetch_add wraps, and the + 1 on the value it returned overflows when    *)
(* that value is the largest usize, which panics in a build with overflow  *)
(* checks and wraps to 0 in a build without.                               *)

\* usize values are 0 .. USizeLimit - 1
USizeLimit == 2 ^ IdBits

InitIds ==
    /\ InitQueue
    /\ cap = 0
    /\ sys_events = <<>>
    /\ events = <<>>
    /\ event_map = {}
    /\ scn = NoScenario
    /\ input = NoInput
    /\ pc = "new"
    /\ NEXT_ID = 0
    /\ selectors = <<>>
    /\ thread = [t \in Threads |-> Idle]

\* calls of Selector::new begun so far
Started == Len(selectors) + Cardinality({t \in Threads : thread[t] # Idle})

\* line 43: NEXT_ID.fetch_add(1, Relaxed) + 1
FetchAdd(t) ==
    LET old == NEXT_ID
    IN /\ pc = "new"
       /\ thread[t] = Idle
       /\ Started < MaxNew
       /\ NEXT_ID' = (old + 1) % USizeLimit
       /\ \/ /\ old + 1 < USizeLimit
             /\ thread' = [thread EXCEPT ![t] = [at |-> "kqueue", id |-> old + 1]]
          \/ /\ old + 1 = USizeLimit
             /\ thread' = [thread EXCEPT ![t] = [at |-> "kqueue", id |-> 0]]
          \/ /\ old + 1 = USizeLimit
             /\ thread' = [thread EXCEPT ![t] = [at |-> "panicked"]]
       /\ UNCHANGED <<knote, cond, cap, sys_events, events, event_map, last,
                      scn, input, pc, selectors>>

\* line 44: kqueue() fails and try! returns the error
KqueueFails(t) ==
    /\ pc = "new"
    /\ thread[t].at = "kqueue"
    /\ selectors' = Append(selectors, Created(thread[t].id, FALSE))
    /\ thread' = [thread EXCEPT ![t] = Idle]
    /\ UNCHANGED <<knote, cond, cap, sys_events, events, event_map, last,
                   scn, input, pc, NEXT_ID>>

\* lines 44-50: kqueue() succeeds and the Selector is returned
KqueueOk(t) ==
    /\ pc = "new"
    /\ thread[t].at = "kqueue"
    /\ selectors' = Append(selectors, Created(thread[t].id, TRUE))
    /\ thread' = [thread EXCEPT ![t] = Idle]
    /\ UNCHANGED <<knote, cond, cap, sys_events, events, event_map, last,
                   scn, input, pc, NEXT_ID>>

NewBegins == \E t \in Threads : FetchAdd(t)
NewFails == \E t \in Threads : KqueueFails(t)
NewReturns == \E t \in Threads : KqueueOk(t)

NextIds ==
    \/ NewBegins
    \/ NewFails
    \/ NewReturns

SpecIds == InitIds /\ [][NextIds]_vars

----------------------------------------------------------------------------
(* Events::with_capacity(n) followed by push_event calls.  input.pushed is *)
(* the sequence of the Events pushed so far.                               *)

PushedEvents == {Event(kind, t) : kind \in {{readable}, {writable, hup}}, t \in Tokens}

InitPush ==
    /\ InitSelector
    /\ cap \in 0..MaxCap
    /\ sys_events = <<>>
    /\ events = <<>>
    /\ event_map = {}
    /\ scn = NoScenario
    /\ input = [op |-> "push", pushed |-> <<>>]
    /\ pc = "run"

PushRecorded ==
    \E e \in PushedEvents :
        /\ Len(input.pushed) < MaxPush
        /\ PushEventStep(e)
        /\ input' = [input EXCEPT !.pushed = Append(@, e)]

NextPush == PushRecorded

SpecPush == InitPush /\ [][NextPush]_vars

----------------------------------------------------------------------------
(* The result policy of register and deregister as a function of the       *)
(* per-change results: every pair of results is tried                      *)

\* the data a change can carry back: 0 or an errno
Codes == {0, ENOENT, EBADF, EINVAL, EPIPE}

InitPolicy ==
    /\ InitSelector
    /\ cap = 0
    /\ sys_events = <<>>
    /\ events = <<>>
    /\ event_map = {}
    /\ scn = NoScenario
    /\ input \in [op : {"register", "reregister"}, interests : Interests,
                  rdata : Codes, wdata : Codes]
            \cup [op : {"deregister"}, interests : {{}},
                  rdata : Codes, wdata : Codes]
    /\ pc = "call"

\* lines 96-130 on the results the kernel wrote back
RegisterReturns ==
    /\ pc = "call"
    /\ input.op \in {"register", "reregister"}
    /\ last' = Registered(input.op, "none", input.interests,
                          registerResult(input.interests, input.rdata, input.wdata))
    /\ pc' = "done"
    /\ UNCHANGED <<knote, cond, cap, sys_events, events, event_map, scn, ids, input>>

\* lines 152-161 on the results the kernel wrote back
DeregisterReturns ==
    /\ pc = "call"
    /\ input.op = "deregister"
    /\ last' = Call("deregister", "none", deregisterResult(input.rdata, input.wdata))
    /\ pc' = "done"
    /\ UNCHANGED <<knote, cond, cap, sys_events, events, event_map, scn, ids, input>>

NextPolicy == RegisterReturns \/ DeregisterReturns

SpecPolicy == InitPolicy /\ [][NextPolicy]_vars

----------------------------------------------------------------------------
(* coalesce as a function of the raw events the wait left in sys_events    *)
(* and of the awakener: every raw event sequence up to MaxRaw is tried.    *)
(* coalesce only compares tokens, so one awakener stands for all.          *)

KEvents ==
    {KEvent(filter, flags, fflags, udata) :
        filter \in {EVFILT_READ, EVFILT_WRITE, EVFILT_OTHER},
        flags \in SUBSET {EV_ERROR, EV_EOF},
        fflags \in {0, 1},
        udata \in Tokens}

SeqsUpTo(S, n) == UNION {[1..k -> S] : k \in 0..n}

\* what an earlier pass and a push_event left in the buffer
StaleEvents == <<Event({writable}, 0), Event({readable, hup}, MaxToken)>>
StaleMap == {<<0, 0>>}

InitCoalesce ==
    /\ InitSelector
    /\ cap = MaxRaw
    /\ sys_events \in SeqsUpTo(KEvents, MaxRaw)
    /\ events = StaleEvents
    /\ event_map = StaleMap
    /\ scn = NoScenario
    /\ input = [op |-> "coalesce", awakener |-> MaxToken]
    /\ pc = "call"

\* select after the wait has returned Len(sys_events) events (lines 74-75)
CoalesceReturns ==
    LET co == coalesce(events, event_map, sys_events, input.awakener)
    IN /\ pc = "call"
       /\ events' = co.events
       /\ event_map' = co.event_map
       /\ last' = SelectReturned(Ok, co.ret, input.awakener, {})
       /\ pc' = "done"
       /\ UNCHANGED <<knote, cond, cap, sys_events, scn, ids, input>>

NextCoalesce == CoalesceReturns

SpecCoalesce == InitCoalesce /\ [][NextCoalesce]_vars

----------------------------------------------------------------------------
(* coalesce on longer raw sequences of plain read and write events: the    *)
(* order of the output sequence                                            *)

PlainKEvents ==
    {KEvent(filter, {}, 0, udata) :
        filter \in {EVFILT_READ, EVFILT_WRITE}, udata \in Tokens}

InitOrder ==
    /\ InitSelector
    /\ cap = MaxOrderRaw
    /\ sys_events \in SeqsUpTo(PlainKEvents, MaxOrderRaw)
    /\ events = StaleEvents
    /\ event_map = StaleMap
    /\ scn = NoScenario
    /\ input = [op |-> "coalesce", awakener |-> MaxToken]
    /\ pc = "call"

NextOrder == CoalesceReturns

SpecOrder == InitOrder /\ [][NextOrder]_vars

----------------------------------------------------------------------------
(* Properties *)

\* the last call was a select, and it returned Ok
SelectDone == last.op = "select" /\ last.res.ok

\* the readiness bits of a raw kevent, bit by bit
ExpectedKind(e) ==
    {b \in {readable, writable, hup, error} :
        \/ b = readable /\ e.filter = EVFILT_READ
        \/ b = writable /\ e.filter = EVFILT_WRITE
        \/ b = hup /\ EV_EOF \in e.flags
        \/ b = error /\ (EV_ERROR \in e.flags \/ (EV_EOF \in e.flags /\ e.fflags # 0))}

\* the raw events of the last wait that carry the token
RawWith(token) == {k \in 1..Len(sys_events) : sys_events[k].udata = token}

\* C1: after a successful select the output sequence holds at most one Event
\* per token, every token of a raw event other than the awakener has its
\* Event, and the readiness of the Event of a token is the union of the bits
\* of all raw events of the call that carry the token.
C1_OneEventPerToken ==
    SelectDone =>
        /\ \A i, j \in 1..Len(events) :
               i # j => events[i].token # events[j].token
        /\ \A k \in 1..Len(sys_events) :
               sys_events[k].udata # last.awakener =>
                   \E i \in 1..Len(events) : events[i].token = sys_events[k].udata
        /\ \A i \in 1..Len(events) :
               events[i].kind =
                   UNION {ExpectedKind(sys_events[k]) : k \in RawWith(events[i].token)}

\* C1 witness: a read and a write raw event of one token became one Event
\* that is readable and writable
C1_Witness ==
    /\ pc = "done"
    /\ SelectDone
    /\ Len(sys_events) = 2
    /\ sys_events[1].udata = sys_events[2].udata
    /\ sys_events[1].filter = EVFILT_READ
    /\ sys_events[2].filter = EVFILT_WRITE
    /\ Len(events) = 1
    /\ {readable, writable} \subseteq events[1].kind

\* C2: after a successful select no Event carries the awakener token, and
\* the call returned true exactly when a raw event of the call carried it,
\* whatever the filter and the flags of that raw event.
C2_WakeToken ==
    SelectDone =>
        /\ \A i \in 1..Len(events) : events[i].token # last.awakener
        /\ last.wake <=> (RawWith(last.awakener) # {})

\* C2 witness: a raw event of the awakener with the error and end-of-file
\* flags was taken for a wake, next to an Event of another token
C2_Witness ==
    /\ pc = "done"
    /\ SelectDone
    /\ last.wake
    /\ \E k \in RawWith(last.awakener) :
           {EV_ERROR, EV_EOF} \subseteq sys_events[k].flags
    /\ Len(events) = 1

\* the tokens the raw events of the last wait carry, the awakener apart
RawTokens == {sys_events[k].udata : k \in 1..Len(sys_events)} \ {last.awakener}

\* C3: after a select that returned Ok the output sequence holds the Events
\* of the raw events of that call and nothing else: one Event per token of
\* the call, with the bits of the raw events of the call only.  Nothing of
\* an earlier select or push_event is left.  (A select whose wait failed
\* had no raw events and leaves the sequence as it was, see C20.)
C3_NothingCarriedOver ==
    SelectDone =>
        /\ Len(events) = Cardinality(RawTokens)
        /\ \A i \in 1..Len(events) :
               /\ events[i].token \in RawTokens
               /\ events[i].kind =
                      UNION {ExpectedKind(sys_events[k]) : k \in RawWith(events[i].token)}
        /\ Cardinality(event_map) = Len(events)

\* C3 witness: the second of two selects in a row found the buffer holding
\* more Events than it yields itself
C3_Witness ==
    /\ SelectDone
    /\ last.again
    /\ last.before = 2
    /\ Len(events) = 1
    /\ cap = MaxCap

\* C3 as stated, of every select call, the ones whose wait failed included:
\* the output sequence holds the Events of the raw events of the call and
\* nothing else
C3_AsClaimed ==
    last.op = "select" =>
        IF last.res.ok
        THEN /\ Len(events) = Cardinality(RawTokens)
             /\ \A i \in 1..Len(events) :
                    /\ events[i].token \in RawTokens
                    /\ events[i].kind =
                           UNION {ExpectedKind(sys_events[k]) :
                                     k \in RawWith(events[i].token)}
        ELSE events = <<>>

\* neither filter of fd is in the kernel queue
NoFilter(kn, fd) == \A f \in Filters : ~kn[fd][f].present

\* the code the kernel reports for the removal of a filter of fd
RemovalReport(fd, filter) ==
    KernelChange(knote, cond, fd, filter, EV_DELETE, {EV_RECEIPT}, 0).data

\* C4: deregister of a descriptor with neither filter in the kernel queue,
\* for which both removals report no-such-entry, returns the not-found
\* error; deregister of a descriptor with a filter returns Ok and leaves it
\* with none, and a deregister that follows a successful deregister of the
\* same descriptor returns not-found.
C4_DeregisterNotFound ==
    [][\A fd \in Fds :
          (last' # last /\ last'.op = "deregister" /\ last'.fd = fd) =>
              /\ NoFilter(knote, fd) <=>
                     (RemovalReport(fd, EVFILT_READ) = ENOENT
                        /\ RemovalReport(fd, EVFILT_WRITE) = ENOENT)
              /\ NoFilter(knote, fd) => last'.res = Err(ENOENT)
              /\ ~NoFilter(knote, fd) => last'.res = Ok /\ NoFilter(knote', fd)
              /\ (last.op = "deregister" /\ last.fd = fd /\ last.res.ok)
                     => last'.res = Err(ENOENT)]_vars

\* C4 witness: the second of two deregister calls in a row on a descriptor,
\* the first of which succeeded, returned not-found
C4_Witness ==
    /\ last.op = "deregister"
    /\ last.again
    /\ last.res = Err(ENOENT)

FilterOf(bit) == IF bit = readable THEN EVFILT_READ ELSE EVFILT_WRITE

\* the last call was register or reregister
RegisterDone == last.op \in {"register", "reregister"}

\* C5: register and reregister leave no filter for a direction that is not
\* in the interest, and return Ok whenever the kernel accepts the filters
\* of the directions that are in it: the no-such-entry result of removing a
\* filter that does not exist is no error.
C5_AbsentDirectionRemoved ==
    RegisterDone =>
        /\ \A bit \in {readable, writable} \ last.interests :
               ~knote[last.fd][FilterOf(bit)].present
        /\ (\A bit \in last.interests : AttachError(last.fd, FilterOf(bit)) = 0)
               => last.res = Ok

\* C5 witness: the kqueue descriptor, which takes no write filter, was
\* registered for reading only, edge-triggered and one-shot, and the call
\* returned Ok
C5_Witness ==
    /\ last.op = "register"
    /\ last.fd = "kq"
    /\ last.interests = {readable}
    /\ last.res = Ok
    /\ knote["kq"][EVFILT_READ].present
    /\ knote["kq"][EVFILT_READ].clear
    /\ knote["kq"][EVFILT_READ].oneshot
    /\ ~knote["kq"][EVFILT_WRITE].present

\* register or reregister has returned for the per-change results of input
RegisterReturned == pc = "done" /\ input.op \in {"register", "reregister"}

\* the result of a change is zero, or one register does not report
Passed(bit, data) ==
    \/ data = 0
    \/ data = EPIPE /\ bit = writable
    \/ data = ENOENT /\ bit \notin input.interests

\* C6: broken pipe is passed over on the write change and only there: with
\* broken pipe on the write change and a read change that is zero or passed
\* over, register returns Ok; with broken pipe on the read change it returns
\* that error.
C6_BrokenPipe ==
    RegisterReturned =>
        /\ (input.wdata = EPIPE /\ Passed(readable, input.rdata)) => last.res = Ok
        /\ input.rdata = EPIPE => last.res = Err(EPIPE)

\* C6 witness: register returned Ok for broken pipe on the write change of
\* a descriptor registered for both directions
C6_Witness ==
    /\ RegisterReturned
    /\ input.interests = {readable, writable}
    /\ input.rdata = 0
    /\ input.wdata = EPIPE
    /\ last.res = Ok

\* C7: register returns the code of the first change, read before write,
\* whose result is neither zero nor passed over, and Ok when there is none.
C7_FirstErrorReturned ==
    RegisterReturned =>
        last.res = IF ~Passed(readable, input.rdata) THEN Err(input.rdata)
                   ELSE IF ~Passed(writable, input.wdata) THEN Err(input.wdata)
                   ELSE Ok

\* C7 witness: both changes failed with different codes and the call
\* returned the code of the read change
C7_Witness ==
    /\ RegisterReturned
    /\ input.rdata = EBADF
    /\ input.wdata = EINVAL
    /\ last.res = Err(EBADF)

DeregisterReturned == pc = "done" /\ input.op = "deregister"

\* the directions whose removal reported a code other than zero and
\* no-such-entry
Failing == {d \in {input.rdata, input.wdata} : d # 0 /\ d # ENOENT}

\* C8: when a removal of deregister reported a code other than zero and
\* no-such-entry, the error returned carries the code of a failing
\* direction; the error returned never carries 0, and carries no-such-entry
\* only when both directions reported no-such-entry.
C8_DeregisterErrorCode ==
    DeregisterReturned =>
        /\ ~last.res.ok => last.res.code # 0
        /\ (~last.res.ok /\ last.res.code = ENOENT)
               => (input.rdata = ENOENT /\ input.wdata = ENOENT)
        /\ Failing # {} => ~last.res.ok /\ last.res.code \in Failing

\* C9: a select with a timeout, called while no filter of the kernel queue
\* is ready, returns Ok and false and leaves the output sequence empty,
\* whatever was registered and deregistered before and whatever the buffer
\* held.
C9_EmptyWait ==
    [][(ActiveKnotes(knote) = {} /\ SelectCall(scn.awakener, "Some"))
          => /\ last'.res = Ok
             /\ ~last'.wake
             /\ events' = <<>>
             /\ sys_events' = <<>>]_vars

\* C9 witness: a select found a buffer with room, holding an Event of an
\* earlier wait, and a registered descriptor that was not ready, and
\* returned Ok with nothing
C9_Witness ==
    /\ SelectDone
    /\ ~last.wake
    /\ last.before > 0
    /\ events = <<>>
    /\ cap > 0
    /\ ActiveKnotes(knote) = {}
    /\ \E fd \in Fds : ~NoFilter(knote, fd)

\* the output sequence of the next state has a readable Event for the token
YieldsReadable(token) ==
    \E i \in 1..Len(events') :
        events'[i].token = token /\ readable \in events'[i].kind

\* fd is registered for reading, level-triggered, and has unread data
LevelReadable(fd) ==
    /\ scn.opts = {{}}
    /\ knote[fd][EVFILT_READ].present
    /\ cond[fd]

\* C10 as claimed: every successful select with a buffer of capacity 1 or
\* more yields a readable Event for the token of a descriptor registered
\* for reading, level-triggered, while it has unread data.
C10_AsClaimed ==
    [][\A fd \in Fds, timeout \in Timeouts :
          (LevelReadable(fd) /\ cap >= 1
             /\ SelectCall(scn.awakener, timeout) /\ last'.res.ok)
          => YieldsReadable(knote[fd][EVFILT_READ].udata)]_vars

\* C10: every successful select yields a readable Event for the token of a
\* descriptor registered for reading, level-triggered, while it has unread
\* data, provided the token is not the awakener and the capacity of the
\* buffer is at least the number of filters that are ready.
C10_LevelRedelivery ==
    [][\A fd \in Fds, timeout \in Timeouts :
          (LevelReadable(fd)
             /\ knote[fd][EVFILT_READ].udata # scn.awakener
             /\ cap >= Cardinality(ActiveKnotes(knote))
             /\ SelectCall(scn.awakener, timeout) /\ last'.res.ok)
          => YieldsReadable(knote[fd][EVFILT_READ].udata)]_vars

\* C10 witness: the second of two selects in a row yielded the readable
\* Event of a descriptor that still has its data, next to the Event of
\* another descriptor
C10_Witness ==
    /\ SelectDone
    /\ last.again
    /\ last.before = 2
    /\ Len(events) = 2
    /\ \E fd \in Fds :
           /\ knote[fd][EVFILT_READ].present
           /\ cond[fd]
           /\ \E i \in 1..Len(events) :
                  /\ events[i].token = knote[fd][EVFILT_READ].udata
                  /\ readable \in events[i].kind

\* C11: a descriptor is registered once for reading, edge-triggered, and
\* data arrives on it once.  When the token is not the awakener and the
\* buffer has room, of the successful selects made while the data is there
\* the first one yields the readable Event for the token and no later one
\* does: the Event is delivered exactly once.  When the token is the
\* awakener or the capacity is 0, no select yields it.
C11_EdgeOnce ==
    [][\A fd \in Fds :
          (/\ knote[fd][EVFILT_READ].present
           /\ cond[fd]
           /\ SelectCounted
           /\ last'.res.ok)
          => IF knote[fd][EVFILT_READ].udata # scn.awakener /\ cap >= 1
             THEN /\ input'.count = 1
                  /\ YieldsReadable(knote[fd][EVFILT_READ].udata) <=> input.count = 0
             ELSE /\ input'.count = 0
                  /\ events' = <<>>]_vars

\* C11 as stated, for any token and any capacity: the first successful
\* select made while the data is there yields the readable Event for the
\* token, and no later one does
C11_AsClaimed ==
    [][\A fd \in Fds :
          (/\ knote[fd][EVFILT_READ].present
           /\ cond[fd]
           /\ SelectCounted
           /\ last'.res.ok)
          => /\ input'.count = 1
             /\ YieldsReadable(knote[fd][EVFILT_READ].udata) <=> input.count = 0]_vars

\* C11 witness: the Event was delivered by one select, and the select after
\* it, with the data still unread, returned Ok with nothing
C11_Witness ==
    /\ input.op = "edge"
    /\ input.count = 1
    /\ cap >= 1
    /\ SelectDone
    /\ last.again
    /\ last.before = 1
    /\ events = <<>>
    /\ \E fd \in Fds : knote[fd][EVFILT_READ].present /\ cond[fd]

\* C12: a descriptor is registered once with the one-shot option and token
\* T, for any interest.  Once a select has delivered an Event for T, no
\* later select delivers one: at most one select yields an Event.
C12_OneShot ==
    input.op = "oneshot" => input.count <= 1

\* C13: every Selector that was created has an id that is not 0 and
\* differs from the id of every other Selector created, whatever the
\* number of creations, the interleaving of the threads and the creations
\* that failed; the id a Selector reports never changes.
C13_UniqueIds ==
    /\ \A i \in 1..Len(selectors) :
           selectors[i].ok => selectors[i].id # 0
    /\ \A i, j \in 1..Len(selectors) :
           (i # j /\ selectors[i].ok /\ selectors[j].ok)
               => selectors[i].id # selectors[j].id

\* C14: whatever the capacity of the buffer, a select without a timeout
\* that returns Ok has received a raw event: its output sequence is not
\* empty or it returns true.
C14_BlockingWait ==
    [][(SelectCall(scn.awakener, "None") /\ last'.res.ok)
          => (sys_events' # <<>> /\ (events' # <<>> \/ last'.wake))]_vars

\* C15: after with_capacity(n) and k calls of push_event, with k below, at
\* or above n, len() is k, is_empty() holds iff k is 0, get(i) is the i-th
\* Event pushed for every i < k and nothing for every i >= k; a push
\* beyond n changes no earlier entry.
C15_PushLenGet ==
    input.op = "push" =>
        LET k == Len(input.pushed)
        IN /\ len(events) = k
           /\ is_empty(events) <=> k = 0
           /\ \A i \in 0..(MaxPush + 1) :
                  get(events, i) = IF i < k THEN Some(input.pushed[i + 1]) ELSE None

\* C15 witness: more Events were pushed than the capacity asked for, not
\* all of them the same
C15_Witness ==
    /\ input.op = "push"
    /\ cap >= 1
    /\ Len(input.pushed) > cap + 1
    /\ events[1] # events[Len(events)]
    /\ get(events, cap) = Some(input.pushed[cap + 1])

\* the position of the first raw event that carries the token
FirstRaw(token) == CHOOSE k \in RawWith(token) : \A j \in RawWith(token) : k <= j

\* the tokens other than the awakener whose first raw event comes before k
SeenBefore(k) == {sys_events[j].udata : j \in 1..(k - 1)} \ {last.awakener}

\* C16: within one select the output sequence lists the tokens in the
\* order of their first raw event: the Event of a token stands at the index
\* given by the number of other tokens, the awakener not counted, that
\* occur before the token's first raw event.  So A's Event is below B's iff
\* A's first raw event precedes B's, and raw events of the awakener take no
\* position.
C16_FirstSeenOrder ==
    (pc = "done" /\ SelectDone) =>
        /\ \A i \in 1..Len(events) :
               /\ events[i].token # last.awakener
               /\ RawWith(events[i].token) # {}
               /\ i = 1 + Cardinality(SeenBefore(FirstRaw(events[i].token)))
        /\ \A i, j \in 1..Len(events) :
               i < j <=> FirstRaw(events[i].token) < FirstRaw(events[j].token)

\* C16 witness: the raw events were those of a token, the awakener, a
\* second token and the first token again, and the output sequence is the
\* first token, then the second
C16_Witness ==
    /\ pc = "done"
    /\ SelectDone
    /\ last.wake
    /\ Len(sys_events) = 4
    /\ sys_events[2].udata = last.awakener
    /\ sys_events[1].udata = sys_events[4].udata
    /\ Len(events) = 2
    /\ events[1].token = sys_events[1].udata
    /\ events[2].token = sys_events[3].udata

\* the Event of the output sequence that carries the token
EventOf(token) == CHOOSE ev \in {events[i] : i \in 1..Len(events)} : ev.token = token

\* C17: a raw event that does not carry the awakener and is the only one of
\* its token gives the token an Event whose readiness is: readable iff the
\* filter is the read filter, writable iff it is the write filter, hup iff
\* EV_EOF is set, error iff EV_ERROR is set or EV_EOF is set with a nonzero
\* fflags.  The Event is there whatever the filter, with no bit if none of
\* these holds.
C17_BitsOfRawEvent ==
    (pc = "done" /\ SelectDone) =>
        \A k \in 1..Len(sys_events) :
            LET e == sys_events[k]
            IN (e.udata # last.awakener /\ RawWith(e.udata) = {k}) =>
                   /\ \E i \in 1..Len(events) : events[i].token = e.udata
                   /\ readable \in EventOf(e.udata).kind <=> e.filter = EVFILT_READ
                   /\ writable \in EventOf(e.udata).kind <=> e.filter = EVFILT_WRITE
                   /\ hup \in EventOf(e.udata).kind <=> EV_EOF \in e.flags
                   /\ error \in EventOf(e.udata).kind
                          <=> (EV_ERROR \in e.flags
                                 \/ (EV_EOF \in e.flags /\ e.fflags # 0))
                   /\ EventOf(e.udata).kind \subseteq {readable, writable, hup, error}

\* C17 witness: a raw event of another filter with a nonzero fflags and no
\* flag gave its token an Event with no bit
C17_Witness ==
    /\ pc = "done"
    /\ SelectDone
    /\ \E k \in 1..Len(sys_events) :
           /\ sys_events[k].filter = EVFILT_OTHER
           /\ sys_events[k].flags = {}
           /\ sys_events[k].fflags # 0
           /\ sys_events[k].udata # last.awakener
           /\ RawWith(sys_events[k].udata) = {k}
           /\ \E i \in 1..Len(events) :
                  events[i] = Event({}, sys_events[k].udata)

\* the interest bit a filter stands for
BitOf(filter) == IF filter = EVFILT_READ THEN readable ELSE writable

\* what C18 says of a register or reregister call: it leaves for fd
\* exactly the filters of the directions in interest, each with token T,
\* EV_CLEAR iff opts has edge and EV_ONESHOT iff opts has oneshot, and the
\* other descriptors as they were; and the same call made again returns Ok
\* and leaves the kernel queue as it is
SetsFilters(fd, token, interests, opts) ==
    LET ch == RegisterChanges(knote, cond, fd, token, interests, opts)
        res == registerResult(interests, ch.rdata, ch.wdata)
    IN (res.ok /\ ch.rdata = 0 /\ ch.wdata = 0) =>
           /\ \A f \in Filters :
                  /\ ch.knote[fd][f].present <=> BitOf(f) \in interests
                  /\ ch.knote[fd][f].present =>
                         /\ ch.knote[fd][f].udata = token
                         /\ ch.knote[fd][f].clear <=> edge \in opts
                         /\ ch.knote[fd][f].oneshot <=> oneshot \in opts
           /\ \A other \in Fds \ {fd} : ch.knote[other] = knote[other]
           /\ LET rep == RegisterChanges(ch.knote, cond, fd, token, interests, opts)
              IN /\ registerResult(interests, rep.rdata, rep.wdata).ok
                 /\ rep.knote = ch.knote

\* C18: in every state, a register or reregister(fd, T, interest, opts)
\* that succeeds with no error suppressed leaves for fd exactly the filters
\* of the directions in interest, each with token T and the flags of opts,
\* whatever was registered before, and the same call made again leaves the
\* kernel queue as it is; and every Event a select delivers for the
\* descriptor carries the token of the latest register or reregister call
\* made for it, whether that call returned Ok, had an error suppressed or
\* returned an error.
C18_RegisterSetsFilters ==
    /\ pc = "run" =>
           \A fd \in scn.fds, token \in Tokens, interests \in Interests,
              opts \in PollOpts :
               SetsFilters(fd, token, interests, opts)
    /\ SelectDone => \A i \in 1..Len(events) : events[i].token = input.recent

\* C18 witness: the latest call registered both directions of the socket
\* with token 1, with both receipts zero, and the select after it delivered
\* the Event of both filters with token 1
C18_Witness ==
    /\ SelectDone
    /\ input.recent = 1
    /\ input.clean = 1
    /\ \A f \in Filters :
           knote["sock"][f].present /\ knote["sock"][f].udata = 1
    /\ events = <<Event({readable, writable}, 1)>>

\* C18 as stated: every Event a select delivers for the descriptor carries
\* the token of the latest register or reregister call that returned Ok
\* with no error suppressed
C18_AsClaimed ==
    /\ pc = "run" =>
           \A fd \in scn.fds, token \in Tokens, interests \in Interests,
              opts \in PollOpts :
               SetsFilters(fd, token, interests, opts)
    /\ (SelectDone /\ input.clean # NoToken)
           => \A i \in 1..Len(events) : events[i].token = input.clean

\* C19: a deregister of a descriptor that has a filter in the kernel queue
\* returns Ok (the kernel reports 0 or ENOENT for each removal), also when
\* only one direction was registered; after a deregister that returned Ok
\* neither filter of the descriptor is left; a descriptor without a filter
\* gets one only by a register or reregister made for it; and no wait of a
\* select reports a knote of a descriptor that has no filter when the
\* select is called, so that no Event of the select comes from it.
C19_DeregisterRemoves ==
    [][/\ (last' # last /\ last'.op = "deregister")
            => /\ ~NoFilter(knote, last'.fd) => last'.res.ok
               /\ last'.res.ok => NoFilter(knote', last'.fd)
       /\ \A fd \in Fds :
              /\ (NoFilter(knote, fd) /\ ~NoFilter(knote', fd))
                     => (last'.op \in {"register", "reregister"} /\ last'.fd = fd)
              /\ (NoFilter(knote, fd) /\ last'.op = "select" /\ last'.res.ok)
                     => /\ fd \notin last'.from
                        /\ Len(events') <= Cardinality(last'.from)]_vars

\* C19 witness: the socket, with unread data, was deregistered with
\* success after an Event had been delivered, and has no filter left,
\* while the other descriptor has one
C19_Witness ==
    /\ last.op = "deregister"
    /\ last.res.ok
    /\ last.fd = "sock"
    /\ cond["sock"]
    /\ NoFilter(knote, "sock")
    /\ ~NoFilter(knote, "kq")
    /\ Len(events) = 1

\* C20: a select whose wait fails returns the error and leaves the buffer
\* as it was: the raw events, the output sequence, with the Events of the
\* select before and the Events pushed since, and the map are unchanged,
\* and len() and get(i) answer as before the call.
C20_FailedWaitKeepsBuffer ==
    [][(last' # last /\ last'.op = "select" /\ ~last'.res.ok)
          => /\ last'.res.code # 0
             /\ ~last'.wake
             /\ sys_events' = sys_events
             /\ events' = events
             /\ event_map' = event_map
             /\ len(events') = len(events)
             /\ \A i \in 0..(MaxCap + 1) : get(events', i) = get(events, i)]_vars

\* C20 witness: a select failed with EINTR on a buffer that held the raw
\* events of the select before it and an Event pushed since, and they are
\* still there
C20_Witness ==
    /\ last.op = "select"
    /\ last.res = Err(EINTR)
    /\ last.before = 1
    /\ sys_events # <<>>
    /\ Len(events) = 1
    /\ hup \in events[1].kind

====
